---- MODULE Spec2Model ----
(***************************************************************************)
(* Longitudinal response aggregation of the RECIST dashboard               *)
(* (recist-dashboard/src/App.tsx): groupByPatient builds, from a flat list *)
(* of per-timepoint records, one chronologically ordered series per        *)
(* patient with the aggregate value (SLD) and its change from baseline and *)
(* from the running nadir; buildLesionMatrix builds, from one series, the   *)
(* rows of the lesions observed at its timepoints with a cell per date;    *)
(* handleCohortJsonl reads a file of JSON lines into records and sets the  *)
(* series and the selected patient from them.                              *)
(*                                                                         *)
(* Representation.  A nullable value (number | null, optional list) is a   *)
(* sequence of length at most one: <<>> is null/undefined, <<v>> is v.     *)
(* A string that the code compares or concatenates (patient_id,            *)
(* study_date, the strings of a lesion) is the sequence of its character   *)
(* codes.  Measurements are integers (mm); a                               *)
(* percentage is the exact rational <<numerator, denominator>> in lowest   *)
(* terms with a positive denominator, standing for the double the          *)
(* JavaScript expression evaluates to (rounding is not modelled).          *)
(***************************************************************************)
EXTENDS Integers, Sequences, FiniteSets, TLC

VARIABLES
    input,       \* the argument `rows` of groupByPatient: a list of RecistMeta
    series,      \* the PatientSeries[] it returns
    nadirTrace,  \* per patient, the values the local `nadir` takes: its seed,
                 \* then its value after each record of the fold
    pc,          \* "call" before groupByPatient has run, "return" after,
                 \* "matrix" after buildLesionMatrix has run, "parsed" after
                 \* the loop of handleCohortJsonl has run on its own
    selected,    \* the argument of buildLesionMatrix: a PatientSeries or
                 \* undefined
    matrix,      \* what buildLesionMatrix returns, or that it threw
    landing,     \* for each observation buildLesionMatrix processed, in
                 \* order: the observation, its timepoint index and date, and
                 \* the label of the row fetched for it by rowsMap.get(id)
    text,        \* the lines of the text handleCohortJsonl has read
    loaded,      \* the local `rows` of handleCohortJsonl after its loop
    selectedId,  \* the state selectedId of App: a patient identifier or null
    chosen,      \* the files chosen so far, each as the lines of its text
    pending,     \* the calls of handleCohortJsonl waiting for readFileText,
                 \* each by the position of its file in chosen
    applied      \* the calls that have set series and selectedId, in order

vars == <<input, series, nadirTrace, pc, selected, matrix, landing,
          text, loaded, selectedId, chosen, pending, applied>>

\* the variables of the loading of files
loadVars == <<text, loaded, selectedId, chosen, pending, applied>>

----------------------------------------------------------------------------
(* Nullable values *)

Null == <<>>

Some(v) == <<v>>

Val(x) == x[1]

\* x ?? y
Coalesce(x, y) == IF x = Null THEN y ELSE x

\* JavaScript truthiness of a number | null: neither null nor 0
Truthy(x) == x # Null /\ Val(x) # 0

----------------------------------------------------------------------------
(* Numbers *)

Abs(n) == IF n < 0 THEN -n ELSE n

RECURSIVE GCD(_, _)
GCD(a, b) == IF b = 0 THEN a ELSE GCD(b, a % b)

\* the rational n / d (d # 0) in lowest terms, denominator positive
Ratio(n, d) ==
    LET g == GCD(Abs(n), Abs(d))
        s == IF d < 0 THEN -1 ELSE 1
    IN  <<(s * n) \div g, (s * d) \div g>>

\* Math.min
MathMin(a, b) == IF a <= b THEN a ELSE b

----------------------------------------------------------------------------
(* Strings and String.prototype.localeCompare *)

\* collation weights of an ASCII letter, digit, hyphen or colon: letters
\* compare first without regard to case (primary weight), punctuation and
\* digits before letters
PrimaryWeight(c) == IF c \in 65..90 THEN c + 32 ELSE c

\* when all primary weights agree, a lower-case letter comes before the same
\* letter in upper case (tertiary weight)
TertiaryWeight(c) == IF c \in 65..90 THEN 1 ELSE 0

\* the weight of character code c at a collation level
Weight(c, level) == IF level = 1 THEN PrimaryWeight(c) ELSE TertiaryWeight(c)

\* compare a and b from index i on by their weights at one level
RECURSIVE CollateFrom(_, _, _, _)
CollateFrom(a, b, i, level) ==
    IF i > Len(a) /\ i > Len(b) THEN 0
    ELSE IF i > Len(a) THEN -1
    ELSE IF i > Len(b) THEN 1
    ELSE IF Weight(a[i], level) < Weight(b[i], level) THEN -1
    ELSE IF Weight(a[i], level) > Weight(b[i], level) THEN 1
    ELSE CollateFrom(a, b, i + 1, level)

\* the sign of a comparison decided at the primary level p, else at the
\* tertiary level
Decide(p, a, b) == IF p # 0 THEN p ELSE CollateFrom(a, b, 1, 3)

\* the collation order of two strings: negative, zero or positive
Collate(a, b) == Decide(CollateFrom(a, b, 1, 1), a, b)

\* the patient identifiers of the inputs: "p1", "P1".  The collation puts
\* "p1" first, the order of the code units "P1".
PatientIds == { <<112, 49>>, <<80, 49>> }

\* the study dates of the inputs: "2024-01-15", "2024-02-01"
Dates == { <<50, 48, 50, 52, 45, 48, 49, 45, 49, 53>>,
           <<50, 48, 50, 52, 45, 48, 50, 45, 48, 49>> }

\* String(undefined): "undefined"
UndefinedString == <<117, 110, 100, 101, 102, 105, 110, 101, 100>>

\* the anatomic sites of the inputs: "liver", "lung", "lung:RUL"
Organs == { <<108, 105, 118, 101, 114>>,
            <<108, 117, 110, 103>>,
            <<108, 117, 110, 103, 58, 82, 85, 76>> }

\* the strings the code compares
ComparedStrings == PatientIds \cup Dates \cup Organs \cup {UndefinedString}

\* Collate tabulated once over the strings of the inputs
CollationTable ==
    [a \in ComparedStrings |-> [b \in ComparedStrings |-> Collate(a, b)]]

\* a.localeCompare(b)
LocaleCompare(a, b) == CollationTable[a][b]

----------------------------------------------------------------------------
(* Array.prototype.sort with a comparator that applies localeCompare to one  *)
(* string of each element, keys[i] being the string of arr[i].  The sort is  *)
(* stable: the element at index i moves behind exactly the elements that    *)
(* compare smaller and the elements that compare equal and precede it.      *)

\* arr rearranged so that the element at index i lands at index ranks[i]
Permute(arr, ranks) ==
    [k \in 1..Len(arr) |-> arr[CHOOSE i \in 1..Len(arr) : ranks[i] = k]]

\* does the element at index j come before the one at index i, c being
\* the comparator's result for them
Before(c, j, i) == c < 0 \/ (c = 0 /\ j < i)

ArraySort(arr, keys) ==
    Permute(arr, [i \in 1..Len(arr) |->
                    1 + Cardinality({j \in 1..Len(arr) :
                          Before(LocaleCompare(keys[j], keys[i]), j, i)})])

----------------------------------------------------------------------------
(* groupByPatient *)

\* if (!map.has(key)) map.set(key, [])
AddKey(keys, key) ==
    IF \E i \in 1..Len(keys) : keys[i] = key THEN keys ELSE Append(keys, key)

\* rows.forEach(...): the keys of `map` in insertion order, which is the order
\* in which the patient identifiers first occur in rows
RECURSIVE MapKeys(_)
MapKeys(rows) ==
    IF rows = <<>> THEN <<>>
    ELSE AddKey(MapKeys(SubSeq(rows, 1, Len(rows) - 1)),
                rows[Len(rows)].patient_id)

\* a faulty MapGet: a record equal to an earlier one is not pushed again
MapGetDedup(rows, key) ==
    LET kept == { i \in 1..Len(rows) :
                    /\ rows[i].patient_id = key
                    /\ \A j \in 1..(i - 1) : rows[j] # rows[i] }
    IN  [k \in 1..Cardinality(kept) |->
            rows[CHOOSE i \in kept : Cardinality({j \in kept : j <= i}) = k]]

\* map.get(key): every record with that patient_id, pushed in input order
MapGet(rows, key) == SelectSeq(rows, LAMBDA r : r.patient_id = key)

\* a faulty SortByDate: an unstable sort that puts the later of two records
\* with equal dates first
SortByDateUnstable(arr) ==
    Permute(arr, [i \in 1..Len(arr) |->
                    1 + Cardinality({j \in 1..Len(arr) :
                        \/ LocaleCompare(arr[j].study_date, arr[i].study_date) < 0
                        \/ /\ LocaleCompare(arr[j].study_date, arr[i].study_date) = 0
                           /\ j > i})])

\* the records in the order of the input
SortByDateOmitted(arr) == arr


\* arr.sort((a,b) => a.study_date.localeCompare(b.study_date))
SortByDate(arr) ==
    ArraySort(arr, [i \in 1..Len(arr) |-> arr[i].study_date])

\* a faulty FindBaseline: always the chronologically first record
FindBaselineFirst(arr) == arr[1]

\* a faulty FindBaseline: the last record of timepoint 0 when there is one
FindBaselineLast(arr) ==
    IF \E i \in 1..Len(arr) : arr[i].timepoint = 0
    THEN arr[CHOOSE i \in 1..Len(arr) :
                /\ arr[i].timepoint = 0
                /\ \A j \in (i + 1)..Len(arr) : arr[j].timepoint # 0]
    ELSE arr[1]


\* arr.find(r => r.timepoint === 0) || arr[0]   (arr is never empty)
FindBaseline(arr) ==
    IF \E i \in 1..Len(arr) : arr[i].timepoint = 0
    THEN arr[CHOOSE i \in 1..Len(arr) :
                /\ arr[i].timepoint = 0
                /\ \A j \in 1..(i - 1) : arr[j].timepoint # 0]
    ELSE arr[1]

\* baseline?.recist.baseline_sld_mm ?? null
BaselineSLD(arr) == Coalesce(FindBaseline(arr).recist.baseline_sld_mm, Null)

\* a faulty Sld: the current value is preferred at timepoint 0 too
SldCurrentFirst(r) ==
    Val(Coalesce(r.recist.current_sld_mm,
                 Coalesce(r.recist.baseline_sld_mm, Some(0))))

\* a faulty Sld: a timepoint-0 record without baseline value falls back to
\* its current value
SldFallingBackToCurrent(r) ==
    IF r.timepoint = 0
    THEN Val(Coalesce(r.recist.baseline_sld_mm,
                      Coalesce(r.recist.current_sld_mm, Some(0))))
    ELSE Val(Coalesce(r.recist.current_sld_mm,
                      Coalesce(r.recist.baseline_sld_mm, Some(0))))


\* the aggregate value of one record
Sld(r) ==
    IF r.timepoint = 0
    THEN Val(Coalesce(r.recist.baseline_sld_mm, Some(0)))
    ELSE Val(Coalesce(r.recist.current_sld_mm,
                      Coalesce(r.recist.baseline_sld_mm, Some(0))))

\* a faulty UpdateNadir: the nadir follows the latest aggregate value
UpdateNadirLatest(nadir, sld) == Some(sld)

\* a faulty UpdateNadir: a nadir that has a value keeps it
UpdateNadirKept(nadir, sld) == IF nadir = Null THEN Some(sld) ELSE nadir


\* if (nadir === null) nadir = sld; else nadir = Math.min(nadir, sld);
UpdateNadir(nadir, sld) ==
    IF nadir = Null THEN Some(sld) ELSE Some(MathMin(Val(nadir), sld))

\* baselineSLD ? ((sld - baselineSLD) / baselineSLD) * 100 : null
PctFromBaseline(sld, baselineSLD) ==
    IF Truthy(baselineSLD)
    THEN Some(Ratio((sld - Val(baselineSLD)) * 100, Val(baselineSLD)))
    ELSE Null

\* a faulty PctFromNadir: the test nadir > 0 left out
PctFromNadirTruthy(sld, nadir) ==
    IF Truthy(nadir)
    THEN Some(Ratio((sld - Val(nadir)) * 100, Val(nadir)))
    ELSE Null

\* (nadir && nadir > 0) ? ((sld - nadir) / nadir) * 100 : null
PctFromNadir(sld, nadir) ==
    IF Truthy(nadir) /\ Val(nadir) > 0
    THEN Some(Ratio((sld - Val(nadir)) * 100, Val(nadir)))
    ELSE Null

\* a faulty Enrich: the aggregate value is also written to the record's
\* current value
EnrichOverwriting(r, sld, pctFromBaseline, pctFromNadir) ==
    [patient_id        |-> r.patient_id,
     timepoint         |-> r.timepoint,
     study_date        |-> r.study_date,
     recist            |-> [r.recist EXCEPT !.current_sld_mm = Some(sld)],
     lesions           |-> r.lesions,
     sld_mm            |-> sld,
     pct_from_baseline |-> pctFromBaseline,
     pct_from_nadir    |-> pctFromNadir]

\* { ...r, sld_mm: sld, pct_from_baseline: ..., pct_from_nadir: ... }
Enrich(r, sld, pctFromBaseline, pctFromNadir) ==
    [patient_id        |-> r.patient_id,
     timepoint         |-> r.timepoint,
     study_date        |-> r.study_date,
     recist            |-> r.recist,
     lesions           |-> r.lesions,
     sld_mm            |-> sld,
     pct_from_baseline |-> pctFromBaseline,
     pct_from_nadir    |-> pctFromNadir]

\* one step of the map callback: the row of r and the value of `nadir`
\* after it, nadir2 being the updated nadir
Step(r, sld, baselineSLD, nadir2) ==
    [row   |-> Enrich(r, sld, PctFromBaseline(sld, baselineSLD),
                      PctFromNadir(sld, nadir2)),
     nadir |-> nadir2]

StepOf(r, sld, baselineSLD, nadir) ==
    Step(r, sld, baselineSLD, UpdateNadir(nadir, sld))

\* arr.map(r => ...) with the running nadir: for each record of arr in order,
\* the row it yields and the value of `nadir` after it
RECURSIVE Fold(_, _, _)
FoldFrom(step, rest, baselineSLD) ==
    <<step>> \o Fold(rest, baselineSLD, step.nadir)

Fold(arr, baselineSLD, nadir) ==
    IF arr = <<>> THEN <<>>
    ELSE FoldFrom(StepOf(Head(arr), Sld(Head(arr)), baselineSLD, nadir),
                  Tail(arr), baselineSLD)

\* a faulty SeedNadir: the nadir starts without a value
SeedNadirNull(arr) == Null

\* a faulty SeedNadir: the nadir starts from the supplied nadir value
SeedNadirSupplied(arr) == Coalesce(FindBaseline(arr).recist.nadir_sld_mm, Null)


\* let nadir = baselineSLD ?? null
SeedNadir(arr) == Coalesce(BaselineSLD(arr), Null)

\* one patient's records in chronological order, folded
FoldOf(arr) == Fold(arr, BaselineSLD(arr), SeedNadir(arr))

\* the rows2 of a fold
Rows2(fold) == [i \in 1..Len(fold) |-> fold[i].row]

\* the body of the loop over map.entries() for one patient
SeriesOf(rows, patientId) ==
    [patientId |-> patientId,
     rows      |-> Rows2(FoldOf(SortByDate(MapGet(rows, patientId))))]

\* the values of `nadir` while arr is folded: the seed, then one per record
Nadirs(arr, fold) == <<SeedNadir(arr)>> \o [i \in 1..Len(fold) |-> fold[i].nadir]

NadirsOfArr(arr) == Nadirs(arr, FoldOf(arr))

NadirsOf(rows, patientId) == NadirsOfArr(SortByDate(MapGet(rows, patientId)))

\* a faulty SortSeries: the series stay in the order of the map's keys
SortSeriesOmitted(s) == s

\* series.sort((a,b) => a.patientId.localeCompare(b.patientId))
SortSeries(s) ==
    ArraySort(s, [i \in 1..Len(s) |-> s[i].patientId])

\* the series in the order of the map's keys
SeriesInOrder(rows, keys) == [k \in 1..Len(keys) |-> SeriesOf(rows, keys[k])]

groupByPatient(rows) == SortSeries(SeriesInOrder(rows, MapKeys(rows)))

----------------------------------------------------------------------------
(* buildLesionMatrix *)

\* JavaScript truthiness of a string | undefined: neither undefined nor ""
TruthyString(x) == x # Null /\ Val(x) # <<>>

\* ${x} in a template literal
Interpolate(x) == IF x = Null THEN UndefinedString ELSE Val(x)

\* lsn.station || lsn.location || ''
StationOrLocation(lsn) ==
    IF TruthyString(lsn.station) THEN Val(lsn.station)
    ELSE IF TruthyString(lsn.location) THEN Val(lsn.location)
    ELSE <<>>

\* the key without the station-or-location
FallbackKeyWithoutStation(lsn) ==
    lsn.kind \o <<58>> \o Interpolate(lsn.organ) \o <<58>>


\* `${lsn.kind}:${lsn.organ}:${lsn.station || lsn.location || ''}`
FallbackKey(lsn) ==
    lsn.kind \o <<58>> \o Interpolate(lsn.organ) \o <<58>> \o StationOrLocation(lsn)

\* the key without the identifier
LesionKeyWithoutIdentifier(lsn) == FallbackKey(lsn)


\* const id = lsn.lesion_id || `...`
LesionKey(lsn) ==
    IF TruthyString(lsn.lesion_id) THEN Val(lsn.lesion_id) ELSE FallbackKey(lsn)

\* the decimal digits of n > 0
RECURSIVE Digits(_)
Digits(n) ==
    IF n < 10 THEN <<48 + n>> ELSE Digits(n \div 10) \o <<48 + (n % 10)>>

\* `L${lesionIds.length}`
Label(n) == <<76>> \o Digits(n)

\* rowsMap.has(id); rows holds the values of rowsMap in insertion order, which
\* is the order of lesionIds
HasRow(rows, id) == \E i \in 1..Len(rows) : rows[i].lesion.id = id

\* the row set for a first sighting, the n-th identity
NewRow(id, n, lsn) ==
    [lesion |-> [id |-> id, label |-> Label(n), organ |-> lsn.organ,
                 rule |-> lsn.rule, target |-> lsn.target],
     sizesByDate |-> <<>>,
     sldByDate |-> <<>>]

\* labels counted from zero
EnsureRowCountingFromZero(rows, id, lsn) ==
    IF HasRow(rows, id) THEN rows
    ELSE Append(rows, NewRow(id, Len(rows), lsn))


\* if (!rowsMap.has(id)) { lesionIds.push(id); rowsMap.set(id, {...}) }
EnsureRow(rows, id, lsn) ==
    IF HasRow(rows, id) THEN rows
    ELSE Append(rows, NewRow(id, Len(rows) + 1, lsn))

\* a faulty Put: a key that has a value keeps it
PutIfAbsent(obj, key, value) ==
    [k \in (DOMAIN obj) \cup {key} |-> IF k \in DOMAIN obj THEN obj[k] ELSE value]


\* obj[key] = value on an object with string keys
Put(obj, key, value) ==
    [k \in (DOMAIN obj) \cup {key} |-> IF k = key THEN value ELSE obj[k]]

\* zero for an observation that does not contribute
ContributionZeroWhenUnset(lsn, tpIdx) ==
    IF lsn.target
    THEN IF tpIdx = 0 THEN Coalesce(lsn.baseline_mm, Null)
                      ELSE Coalesce(lsn.follow_mm, Null)
    ELSE Some(0)


\* what is assigned to row.sldByDate[date]
Contribution(lsn, tpIdx) ==
    IF lsn.target
    THEN IF tpIdx = 0 THEN Coalesce(lsn.baseline_mm, Null)
                      ELSE Coalesce(lsn.follow_mm, Null)
    ELSE Null

\* a faulty WriteCells: the row takes site, rule and flag of the observation
WriteCellsAndLesion(row, lsn, date, tpIdx) ==
    [lesion      |-> [row.lesion EXCEPT !.organ = lsn.organ, !.rule = lsn.rule,
                                        !.target = lsn.target],
     sizesByDate |-> Put(row.sizesByDate, date, Coalesce(lsn.size_mm_current, Null)),
     sldByDate   |-> Put(row.sldByDate, date, Contribution(lsn, tpIdx))]


\* the two assignments to the cells of a row
WriteCells(row, lsn, date, tpIdx) ==
    [lesion      |-> row.lesion,
     sizesByDate |-> Put(row.sizesByDate, date, Coalesce(lsn.size_mm_current, Null)),
     sldByDate   |-> Put(row.sldByDate, date, Contribution(lsn, tpIdx))]

\* const row = rowsMap.get(id)!; row.sizesByDate[date] = ...; row.sldByDate[date] = ...
WriteRow(rows, id, lsn, date, tpIdx) ==
    [i \in 1..Len(rows) |->
        IF rows[i].lesion.id = id THEN WriteCells(rows[i], lsn, date, tpIdx)
        ELSE rows[i]]

\* the label of the row rowsMap.get(id)
LabelOf(rows, id) ==
    rows[CHOOSE i \in 1..Len(rows) : rows[i].lesion.id = id].lesion.label

\* the body of lesions.forEach for one observation, the row of id existing: st
\* holds the rows so far and the observations so far with their rows' labels
Observe(st, rows, id, lsn, date, tpIdx) ==
    [rows |-> WriteRow(rows, id, lsn, date, tpIdx),
     log  |-> Append(st.log, [lsn |-> lsn, tpIdx |-> tpIdx, date |-> date,
                              label |-> LabelOf(rows, id)])]

ObserveLesion(st, lsn, date, tpIdx) ==
    Observe(st, EnsureRow(st.rows, LesionKey(lsn), lsn), LesionKey(lsn),
            lsn, date, tpIdx)

\* lesions.forEach(lsn => ...)
RECURSIVE ForEachLesion(_, _, _, _)
ForEachLesion(st, lesions, date, tpIdx) ==
    IF lesions = <<>> THEN st
    ELSE ForEachLesion(ObserveLesion(st, Head(lesions), date, tpIdx),
                       Tail(lesions), date, tpIdx)

\* selected.rows.forEach((tp, tpIdx) => ...) from the timepoint of index tpIdx
\* on; tp.lesions ?? [] is the list of the timepoint
RECURSIVE ForEachTimepoint(_, _, _)
ForEachTimepoint(st, tps, tpIdx) ==
    IF tps = <<>> THEN st
    ELSE ForEachTimepoint(
             ForEachLesion(st, Val(Coalesce(Head(tps).lesions, Some(<<>>))),
                           Head(tps).study_date, tpIdx),
             Tail(tps), tpIdx + 1)

\* the rows of rowsMap and the log after all timepoints of a series
Traverse(ps) == ForEachTimepoint([rows |-> <<>>, log |-> <<>>], ps.rows, 0)

\* Number(b.lesion.target) - Number(a.lesion.target)
TargetDifference(a, b) ==
    (IF b.lesion.target THEN 1 ELSE 0) - (IF a.lesion.target THEN 1 ELSE 0)

\* the string a.lesion.organ.localeCompare(b.lesion.organ) compares a's organ
\* with, b's organ being converted to a string
OrganString(row) == Interpolate(row.lesion.organ)

\* the comparator of the final sort, for an a that has an organ
CompareRows(a, b) ==
    IF TargetDifference(a, b) # 0 THEN TargetDifference(a, b)
    ELSE LocaleCompare(OrganString(a), OrganString(b))

\* the rows as they were inserted
SortRowsOmitted(rows) == rows


\* Array.from(rowsMap.values()).sort(...) when the comparator does not throw
SortRows(rows) ==
    Permute(rows, [i \in 1..Len(rows) |->
                     1 + Cardinality({j \in 1..Len(rows) :
                           Before(CompareRows(rows[j], rows[i]), j, i)})])

\* the comparator throws a TypeError when it is called with an a that has no
\* organ and the same target flag as b.  Which pairs a sort passes, and in
\* which order, is left to the engine: the sort may throw when some pair
\* of rows can make it throw, and must throw when every call does.
MayThrow(rows) ==
    \E i, j \in 1..Len(rows) :
        /\ i # j
        /\ rows[i].lesion.organ = Null
        /\ rows[i].lesion.target = rows[j].lesion.target

MustThrow(rows) ==
    /\ Len(rows) >= 2
    /\ \A i, j \in 1..Len(rows) :
          /\ rows[i].lesion.organ = Null
          /\ rows[i].lesion.target = rows[j].lesion.target

\* what a call returns
Returns(dates, rows) == [threw |-> FALSE, dates |-> dates, rows |-> rows]

\* a call that ends in a TypeError
Throws == [threw |-> TRUE, dates |-> <<>>, rows |-> <<>>]

\* return { dates, rows } for the rows of rowsMap
Sorted(ps, rows) ==
    Returns([i \in 1..Len(ps.rows) |-> ps.rows[i].study_date], SortRows(rows))

\* the outcomes of the sort and return for the rows of rowsMap
Outcomes(ps, rows) ==
    IF MustThrow(rows) THEN {Throws}
    ELSE IF MayThrow(rows) THEN {Throws, Sorted(ps, rows)}
    ELSE {Sorted(ps, rows)}

\* the outcomes of buildLesionMatrix(sel)
buildLesionMatrix(sel) ==
    IF sel = Null THEN {Returns(<<>>, <<>>)}
    ELSE Outcomes(Val(sel), Traverse(Val(sel)).rows)

\* the log of buildLesionMatrix(sel)
LogOf(sel) == IF sel = Null THEN <<>> ELSE Traverse(Val(sel)).log

----------------------------------------------------------------------------
(* handleCohortJsonl *)

\* A property of a parsed JSON value: absent (undefined), or present with a
\* value that is null (<<>>) or not (<<v>>).
Absent == [present |-> FALSE, value |-> Null]
JsonNull == [present |-> TRUE, value |-> Null]
Given(v) == [present |-> TRUE, value |-> Some(v)]

\* a ?? b for a property a: b when a is undefined or null
Nullish(a, b) == IF a.value = Null THEN b ELSE a.value

\* obj.recist?.[name], obj.extras?.[name]: undefined when the sub-object is
\* undefined or null
Optional(sub, name) == IF sub = Null THEN Absent ELSE Val(sub)[name]

\* obj.recist?.[name] ?? obj[name] ?? null: the nested value first
FlatOrNestedPreferNested(obj, name) ==
    Nullish(Optional(obj.recist, name), Nullish(obj[name], Null))


\* obj[name] ?? obj.recist?.[name] ?? null
FlatOrNested(obj, name) ==
    Nullish(obj[name], Nullish(Optional(obj.recist, name), Null))

\* the label of a record without response: the dash of '—'
NoResponse == "--"

\* obj.lesions ?? obj.extras?.lesions ?? undefined
LesionsOf(obj) ==
    Nullish(obj.lesions, Nullish(Optional(obj.extras, "lesions"), Null))

\* the record pushed for obj; patient_id and study_date are undefined
\* (<<>>) when obj does not have them
RecordOf(obj) ==
    [patient_id |-> obj.patient_id.value,
     timepoint  |-> Val(Nullish(obj.timepoint, Some(0))),
     study_date |-> obj.study_date.value,
     recist     |-> [baseline_sld_mm |-> FlatOrNested(obj, "baseline_sld_mm"),
                     current_sld_mm  |-> FlatOrNested(obj, "current_sld_mm"),
                     nadir_sld_mm    |-> FlatOrNested(obj, "nadir_sld_mm"),
                     overall_response |->
                         Val(Nullish(obj.overall_response,
                                     Nullish(Optional(obj.recist, "overall_response"),
                                             Some(NoResponse))))],
     lesions    |-> LesionsOf(obj)]

\* A line of the text, after text.split(/\r?\n/), is described by what the
\* code asks of it: whether line.trim() is empty, whether JSON.parse(line)
\* returns, whether the value it returns is truthy, and the properties of that
\* value (none for a value that is not an object).

\* parseJsonSafe(line): null when JSON.parse throws, else the value
parseJsonSafe(line) ==
    IF line.parses THEN Some([truthy |-> line.truthy, obj |-> line.obj]) ELSE Null

\* !obj for what parseJsonSafe returns
Falsy(parsed) == parsed = Null \/ ~Val(parsed).truthy

\* the body of the loop for one line: rows after it
PushLine(rows, line) ==
    IF line.blank THEN rows
    ELSE IF Falsy(parseJsonSafe(line)) THEN rows
    ELSE Append(rows, RecordOf(Val(parseJsonSafe(line)).obj))

\* the loop ended by the first line that JSON.parse rejects
RECURSIVE ParseFromStopping(_, _)
ParseFromStopping(rows, lines) ==
    IF lines = <<>> THEN rows
    ELSE IF ~Head(lines).blank /\ ~Head(lines).parses THEN rows
    ELSE ParseFromStopping(PushLine(rows, Head(lines)), Tail(lines))

\* for (const line of text.split(/\r?\n/)) { ... } from rows on
RECURSIVE ParseFrom(_, _)
ParseFrom(rows, lines) ==
    IF lines = <<>> THEN rows
    ELSE ParseFrom(PushLine(rows, Head(lines)), Tail(lines))

\* the rows of a text
ParseLines(lines) == ParseFrom(<<>>, lines)

\* the rows as groupByPatient takes them, every row having patient_id and
\* study_date
AsRows(rows) ==
    [i \in 1..Len(rows) |->
        [rows[i] EXCEPT !.patient_id = Val(rows[i].patient_id),
                        !.study_date = Val(rows[i].study_date)]]

\* grouped[grouped.length - 1]?.patientId ?? null
FirstPatientIdLast(grouped) ==
    IF grouped = <<>> THEN Null ELSE Some(grouped[Len(grouped)].patientId)


\* grouped[0]?.patientId ?? null
FirstPatientId(grouped) ==
    IF grouped = <<>> THEN Null ELSE Some(grouped[1].patientId)

----------------------------------------------------------------------------
(* Inputs *)

\* the longest input list
MaxRecords == 3

\* a recist block
Recist(baseline, current, nadir, response) ==
    [baseline_sld_mm |-> baseline, current_sld_mm |-> current,
     nadir_sld_mm |-> nadir, overall_response |-> response]

\* a lesion observation of the liver lesion "L-LIV-1", a metastasis ("met")
LiverLesion(baseline, follow, current) ==
    [lesion_id |-> Some(<<76, 45, 76, 73, 86, 45, 49>>),
     kind |-> <<109, 101, 116>>, organ |-> Some(<<108, 105, 118, 101, 114>>),
     location |-> Null, station |-> Null, rule |-> "longest",
     baseline_mm |-> baseline, follow_mm |-> follow,
     size_mm_current |-> current, target |-> TRUE]

\* what a record holds besides patient and date.  The first two are the
\* records of a regular follow-up: a baseline study, then a response.
RegularKinds ==
    { [timepoint |-> 0, recist |-> Recist(Some(50), Null, Null, "SD"),
       lesions |-> Some(<<LiverLesion(Some(50), Null, Some(50))>>)],
      [timepoint |-> 1, recist |-> Recist(Some(50), Some(30), Some(30), "PR"),
       lesions |-> Some(<<LiverLesion(Null, Some(30), Some(30))>>)] }

\* records with missing, zero or negative values, a baseline record without
\* baseline value, growth over the baseline
OtherKinds ==
    { [timepoint |-> 2, recist |-> Recist(Null, Some(45), Some(30), "PD"),
       lesions |-> Some(<<>>)],
      [timepoint |-> 0, recist |-> Recist(Null, Some(45), Null, "SD"),
       lesions |-> Null],
      [timepoint |-> 1, recist |-> Recist(Some(-10), Null, Some(-10), "PD"),
       lesions |-> Null],
      [timepoint |-> 0, recist |-> Recist(Some(0), Some(60), Some(0), "CR"),
       lesions |-> Null],
      [timepoint |-> 1, recist |-> Recist(Null, Null, Null, "NE"),
       lesions |-> Null],
      [timepoint |-> 1, recist |-> Recist(Some(50), Some(60), Some(50), "PD"),
       lesions |-> Some(<<>>)] }

Record(p, d, k) ==
    [patient_id |-> p, timepoint |-> k.timepoint, study_date |-> d,
     recist |-> k.recist, lesions |-> k.lesions]

\* patient "p1" with records of every kind, patient "P1" with regular ones
Records ==
    { Record(<<112, 49>>, d, k) : d \in Dates, k \in RegularKinds \cup OtherKinds }
        \cup { Record(<<80, 49>>, d, k) : d \in Dates, k \in RegularKinds }

Inputs == UNION { [1..n -> Records] : n \in 0..MaxRecords }

\* a lesion observation; an absent target flag is the flag false
Observation(id, kind, organ, location, station, rule, target, baseline, follow, current) ==
    [lesion_id |-> id, kind |-> kind, organ |-> organ,
     location |-> location, station |-> station, rule |-> rule,
     baseline_mm |-> baseline, follow_mm |-> follow,
     size_mm_current |-> current, target |-> target]

\* "ln", "met"
Node == <<108, 110>>
Met == <<109, 101, 116>>

\* "lung", "lung:RUL"
Lung == <<108, 117, 110, 103>>
LungRUL == <<108, 117, 110, 103, 58, 82, 85, 76>>

\* "RUL:S1", "S1", "4R"
RULS1 == <<82, 85, 76, 58, 83, 49>>
S1 == <<83, 49>>
Station4R == <<52, 82>>

\* an observation with the identifier of the liver lesion, "L-LIV-1", but
\* described as a node of the lung that does not contribute
LiverAsNode ==
    Observation(Some(<<76, 45, 76, 73, 86, 45, 49>>), Node, Some(Lung), Null,
                Some(Station4R), "short_axis", FALSE, Some(9), Some(8), Some(8))

\* a contributing node without identifier: "ln", "lung", station "RUL:S1"
NodeByStation ==
    Observation(Null, Node, Some(Lung), Null, Some(RULS1), "short_axis", TRUE,
                Some(15), Some(10), Some(10))

\* the same three components with an empty identifier and an empty station,
\* the location giving "RUL:S1"; it contributes zero at a follow-up
NodeByLocation ==
    Observation(Some(<<>>), Node, Some(Lung), Some(RULS1), Some(<<>>),
                "short_axis", TRUE, Null, Some(0), Some(0))

\* another node without identifier: "ln", "lung:RUL", location "S1"
OtherNode ==
    Observation(Null, Node, Some(LungRUL), Some(S1), Null, "short_axis", FALSE,
                Null, Null, Some(6))

\* a second lesion of the liver, "L-LIV-2", that does not contribute
SecondLiver ==
    Observation(Some(<<76, 45, 76, 73, 86, 45, 50>>), Met,
                Some(<<108, 105, 118, 101, 114>>), Null, Null, "longest", FALSE,
                Null, Null, Some(5))

\* observations without anatomic site: "B", and one without identifier
NoSite ==
    Observation(Some(<<66>>), Met, Null, Null, Null, "longest", FALSE,
                Null, Null, Some(7))

NoSiteNoId ==
    Observation(Null, Met, Null, Null, Null, "longest", FALSE, Null, Null, Null)

\* a baseline study and a follow-up with lesion observations
StudyKinds ==
    { [timepoint |-> 0, recist |-> Recist(Some(35), Null, Null, "SD"),
       lesions |-> Some(<<NodeByStation, LiverLesion(Some(20), Null, Some(20))>>)],
      [timepoint |-> 1, recist |-> Recist(Some(35), Some(8), Some(8), "PR"),
       lesions |-> Some(<<LiverAsNode, NodeByLocation>>)] }

\* what a record of the lesion inputs holds besides patient and date
LesionKinds ==
    StudyKinds \cup
    { [timepoint |-> 1, recist |-> Recist(Some(35), Some(12), Some(12), "PR"),
       lesions |-> Some(<<OtherNode, LiverLesion(Null, Some(12), Some(12)),
                         SecondLiver>>)],
      [timepoint |-> 0, recist |-> Recist(Null, Null, Null, "NE"),
       lesions |-> Some(<<NoSite, NoSiteNoId>>)],
      [timepoint |-> 1, recist |-> Recist(Some(35), Some(30), Some(30), "SD"),
       lesions |-> Null] }

\* a follow-up of patient "P1"
OtherPatientKinds == { k \in LesionKinds : k.lesions = Some(<<LiverAsNode, NodeByLocation>>) }

\* patient "p1" with records of every kind, patient "P1" with one
LesionRecords ==
    { Record(<<112, 49>>, d, k) : d \in Dates, k \in LesionKinds }
        \cup { Record(<<80, 49>>, d, k) : d \in Dates, k \in OtherPatientKinds }

MatrixInputs == UNION { [1..n -> LesionRecords] : n \in 0..MaxRecords }

\* the studies of patient "p1" at either date and a follow-up of "P1"
StudyRecords ==
    { Record(<<112, 49>>, d, k) : d \in Dates, k \in StudyKinds }
        \cup { Record(<<80, 49>>, <<50, 48, 50, 52, 45, 48, 50, 45, 48, 49>>, k) :
                  k \in OtherPatientKinds }

StudyInputs == UNION { [1..n -> StudyRecords] : n \in 0..MaxRecords }

\* a JSON object with the properties the loader reads: the flat metrics, the
\* nested block recist (Null when the object has none) and the block extras
Metrics(baseline, current, nadir, response) ==
    [baseline_sld_mm |-> baseline, current_sld_mm |-> current,
     nadir_sld_mm |-> nadir, overall_response |-> response]

NoMetrics == Metrics(Absent, Absent, Absent, Absent)

Json(p, d, tp, flat, recist, lesions, extras) ==
    [patient_id |-> p, study_date |-> d, timepoint |-> tp,
     baseline_sld_mm |-> flat.baseline_sld_mm,
     current_sld_mm |-> flat.current_sld_mm,
     nadir_sld_mm |-> flat.nadir_sld_mm,
     overall_response |-> flat.overall_response,
     recist |-> recist, lesions |-> lesions, extras |-> extras]

\* {}
EmptyObject == Json(Absent, Absent, Absent, NoMetrics, Null, Absent, Null)

\* The lines: an empty or blank line, a line JSON.parse rejects, the lines
\* "null" and "5" (a falsy and a truthy value that is not an object; reading
\* a property of the number gives undefined), and the line of an object.
\* The field object tells whether the line is a JSON object; the code never
\* asks.
BlankLine ==
    [blank |-> TRUE, parses |-> FALSE, truthy |-> FALSE, object |-> FALSE,
     obj |-> EmptyObject]
MalformedLine ==
    [blank |-> FALSE, parses |-> FALSE, truthy |-> FALSE, object |-> FALSE,
     obj |-> EmptyObject]
NullLine ==
    [blank |-> FALSE, parses |-> TRUE, truthy |-> FALSE, object |-> FALSE,
     obj |-> EmptyObject]
ScalarLine ==
    [blank |-> FALSE, parses |-> TRUE, truthy |-> TRUE, object |-> FALSE,
     obj |-> EmptyObject]
ObjectLine(o) ==
    [blank |-> FALSE, parses |-> TRUE, truthy |-> TRUE, object |-> TRUE,
     obj |-> o]

\* an object with flat metrics and a top-level lesion list only
FlatObject ==
    Json(Given(<<112, 49>>), Given(<<50, 48, 50, 52, 45, 48, 50, 45, 48, 49>>),
         Given(1),
         Metrics(Given(50), Given(30), Given(30), Given("PR")), Null,
         Given(<<LiverLesion(Null, Some(30), Some(30))>>), Null)

\* an object with a nested block only, one of its metrics null and one
\* absent, no timepoint, a null top-level lesion list and a list under extras
NestedObject ==
    Json(Given(<<112, 49>>), Given(<<50, 48, 50, 52, 45, 48, 49, 45, 49, 53>>),
         Absent,
         NoMetrics, Some(Metrics(Given(50), JsonNull, Absent, Given("SD"))),
         JsonNull,
         Some([lesions |-> Given(<<LiverLesion(Some(50), Null, Some(50))>>)]))

\* an object with both forms: a flat zero, a flat null, a flat value and a
\* flat label beside nested values, an empty top-level lesion list beside a
\* list under extras
BothObject ==
    Json(Given(<<80, 49>>), Given(<<50, 48, 50, 52, 45, 48, 49, 45, 49, 53>>),
         Given(2),
         Metrics(Given(0), JsonNull, Given(30), Given("PD")),
         Some(Metrics(Given(50), Given(45), Given(20), Given("SD"))),
         Given(<<>>),
         Some([lesions |-> Given(<<LiverLesion(Some(50), Null, Some(50))>>)]))

Lines ==
    { BlankLine, MalformedLine, NullLine, ScalarLine, ObjectLine(EmptyObject),
      ObjectLine(FlatObject), ObjectLine(NestedObject), ObjectLine(BothObject) }

Texts == UNION { [1..n -> Lines] : n \in 0..MaxRecords }

----------------------------------------------------------------------------
(* The state machine: groupByPatient is called once on some input *)

\* nothing has been called yet
Start ==
    /\ series = <<>>
    /\ nadirTrace = <<>>
    /\ pc = "call"
    /\ selected = Null
    /\ matrix = Null
    /\ landing = <<>>
    /\ loaded = <<>>
    /\ selectedId = Null
    /\ chosen = <<>>
    /\ pending = {}
    /\ applied = <<>>

Init ==
    /\ text = <<>>
    /\ input \in Inputs
    /\ Start

GroupByPatient ==
    /\ pc = "call"
    /\ series' = groupByPatient(input)
    /\ nadirTrace' = [p \in { input[i].patient_id : i \in 1..Len(input) } |->
                         NadirsOf(input, p)]
    /\ pc' = "return"
    /\ UNCHANGED <<input, selected, matrix, landing>>
    /\ UNCHANGED loadVars

Next == GroupByPatient

Spec == Init /\ [][Next]_vars

\* groupByPatient called on the records of one patient, "p1", which has
\* records of every kind
InitDerived ==
    /\ text = <<>>
    /\ input \in UNION { [1..n -> { r \in Records : r.patient_id = <<112, 49>> }] :
                            n \in 0..MaxRecords }
    /\ Start

SpecDerived == InitDerived /\ [][Next]_vars

----------------------------------------------------------------------------
(* The state machine of the lesion matrix: groupByPatient is called on some
   input, then buildLesionMatrix on the selected series, or on undefined
   when no series is selected; the selection can change and
   buildLesionMatrix be called again *)

InitMatrix ==
    /\ text = <<>>
    /\ input \in MatrixInputs
    /\ Start

\* series.find(s => s.patientId === ...): a series, or undefined
Selections == {Null} \cup { Some(series[s]) : s \in 1..Len(series) }

BuildLesionMatrix ==
    /\ pc \in {"return", "matrix"}
    /\ \E sel \in Selections :
          /\ selected' = sel
          /\ \E result \in buildLesionMatrix(sel) : matrix' = Some(result)
          /\ landing' = LogOf(sel)
    /\ pc' = "matrix"
    /\ UNCHANGED <<input, series, nadirTrace>>
    /\ UNCHANGED loadVars

NextMatrix == GroupByPatient \/ BuildLesionMatrix

SpecMatrix == InitMatrix /\ [][NextMatrix]_vars

\* the same calls on the studies alone
InitStudies ==
    /\ text = <<>>
    /\ input \in StudyInputs
    /\ Start

SpecStudies == InitStudies /\ [][NextMatrix]_vars

----------------------------------------------------------------------------
(* The state machine of the parsing: the loop of handleCohortJsonl runs once
   on the lines of some text *)

InitParse ==
    /\ text \in Texts
    /\ input = <<>>
    /\ Start

ParseText ==
    /\ pc = "call"
    /\ loaded' = ParseLines(text)
    /\ pc' = "parsed"
    /\ UNCHANGED <<input, series, nadirTrace, selected, matrix, landing>>
    /\ UNCHANGED <<text, selectedId, chosen, pending, applied>>

NextParse == ParseText

SpecParse == InitParse /\ [][NextParse]_vars

----------------------------------------------------------------------------
(* The state machine of the loading: the user chooses files one after the
   other and picks patients in the selector; each choice calls
   handleCohortJsonl, which waits for readFileText and then, in one step,
   parses the text, groups the records and sets series and selectedId (the
   two state updates are batched into one render) *)

\* the calls of handleCohortJsonl the model follows
MaxLoads == 2

\* a file of two studies of "p1" around a malformed line, a file of "P1" and
\* "p1", a file of "P1" alone, a file without any record
TwoStudies == <<ObjectLine(FlatObject), MalformedLine, ObjectLine(NestedObject)>>
TwoPatients == <<ObjectLine(BothObject), ObjectLine(FlatObject)>>
OnePatient == <<ObjectLine(BothObject), BlankLine>>
NoRecord == <<MalformedLine, NullLine>>

Files == { TwoStudies, TwoPatients, OnePatient, NoRecord }

InitLoad ==
    /\ text = <<>>
    /\ input = <<>>
    /\ Start

\* the change of the file input with a file: handleCohortJsonl(file) runs up
\* to `await readFileText(file)`
ChooseFile(file) ==
    /\ Len(chosen) < MaxLoads
    /\ chosen' = Append(chosen, file)
    /\ pending' = pending \cup { Len(chosen) + 1 }
    /\ UNCHANGED <<input, series, nadirTrace, pc, selected, matrix, landing>>
    /\ UNCHANGED <<text, loaded, selectedId, applied>>

\* the FileReader of call n fires onload: the call resumes after the await
\* and runs to its end
ReadLoaded(n) ==
    /\ n \in pending
    /\ text' = chosen[n]
    /\ loaded' = ParseLines(chosen[n])
    /\ input' = AsRows(ParseLines(chosen[n]))
    /\ series' = groupByPatient(AsRows(ParseLines(chosen[n])))
    /\ nadirTrace' = [p \in { input'[i].patient_id : i \in 1..Len(input') } |->
                         NadirsOf(input', p)]
    /\ selectedId' = FirstPatientId(series')
    /\ pending' = pending \ {n}
    /\ applied' = Append(applied, n)
    /\ pc' = "return"
    /\ UNCHANGED <<selected, matrix, landing, chosen>>

\* the FileReader of call n fires onerror: the promise rejects and the call
\* ends without setting anything
ReadFailed(n) ==
    /\ n \in pending
    /\ pending' = pending \ {n}
    /\ UNCHANGED <<input, series, nadirTrace, pc, selected, matrix, landing>>
    /\ UNCHANGED <<text, loaded, selectedId, chosen, applied>>

\* the change of the patient selector to another of its options
SelectPatient(s) ==
    /\ s \in 1..Len(series)
    /\ selectedId # Some(series[s].patientId)
    /\ selectedId' = Some(series[s].patientId)
    /\ UNCHANGED <<input, series, nadirTrace, pc, selected, matrix, landing>>
    /\ UNCHANGED <<text, loaded, chosen, pending, applied>>

NextLoad ==
    \/ \E file \in Files : ChooseFile(file)
    \/ \E n \in 1..MaxLoads : ReadLoaded(n)
    \/ \E n \in 1..MaxLoads : ReadFailed(n)
    \/ \E s \in 1..MaxRecords : SelectPatient(s)

SpecLoad == InitLoad /\ [][NextLoad]_vars

\* series.find(s => s.patientId === (selectedId ?? series[0]?.patientId))
SelectedSeries ==
    LET wanted == IF selectedId # Null THEN selectedId ELSE FirstPatientId(series)
        found == { s \in 1..Len(series) : Some(series[s].patientId) = wanted }
    IN  IF found = {} THEN Null
        ELSE Some(series[CHOOSE s \in found : \A t \in found : s <= t])

----------------------------------------------------------------------------
(* Properties of groupByPatient *)

Returned == pc = "return"

\* the patient identifiers occurring in a list of records
PatientsOf(rows) == { rows[i].patient_id : i \in 1..Len(rows) }

\* the fields of a RecistMeta
InputFields == {"patient_id", "timepoint", "study_date", "recist", "lesions"}

\* the fields groupByPatient adds
DerivedFields == {"sld_mm", "pct_from_baseline", "pct_from_nadir"}

\* a row without the derived fields
Original(row) == [f \in InputFields |-> row[f]]

Originals(rows) == [i \in 1..Len(rows) |-> Original(rows[i])]

\* how often x occurs in seq
Count(seq, x) == Cardinality({ i \in 1..Len(seq) : seq[i] = x })

\* C1: groupByPatient returns exactly one series for each distinct
\* patient_id of the input, no patient missing and none twice, and the
\* series are in ascending collation order of the patient identifier,
\* whatever the order of the input records.
C1_OneSeriesPerPatientSorted ==
    Returned =>
        /\ { series[s].patientId : s \in 1..Len(series) } = PatientsOf(input)
        /\ Len(series) = Cardinality(PatientsOf(input))
        /\ \A s \in 1..(Len(series) - 1) :
              Collate(series[s].patientId, series[s + 1].patientId) < 0

\* a call whose input names "P1" before "p1", the reverse of their order
C1_Witness ==
    /\ Returned
    /\ Len(input) = 3
    /\ input[1].patient_id = <<80, 49>>
    /\ input[2].patient_id = <<112, 49>>
    /\ Len(series) = 2

\* C2: in every series the rows are in non-decreasing study_date order, and
\* the records of one patient with equal study_date keep the relative order
\* they have in the input.
C2_RowsChronologicalStable ==
    Returned =>
        \A s \in 1..Len(series) :
            /\ \A i \in 1..(Len(series[s].rows) - 1) :
                  Collate(series[s].rows[i].study_date,
                          series[s].rows[i + 1].study_date) <= 0
            /\ \A d \in Dates :
                  Originals(SelectSeq(series[s].rows,
                                      LAMBDA r : r.study_date = d))
                    = SelectSeq(input, LAMBDA r :
                          r.patient_id = series[s].patientId /\ r.study_date = d)

\* a patient with two different records of one date behind a record of a
\* later date in the input
C2_Witness ==
    /\ Returned
    /\ Len(input) = 3
    /\ PatientsOf(input) = { <<112, 49>> }
    /\ Collate(input[2].study_date, input[1].study_date) < 0
    /\ input[2].study_date = input[3].study_date
    /\ input[2] # input[3]

\* C3: groupByPatient neither drops nor deduplicates records: the rows of a
\* patient's series correspond one-to-one to the input records with that
\* patient_id, equal records giving separate rows, and the series together
\* have as many rows as the input has records.
C3_NoDropNoDedup ==
    Returned =>
        /\ \A s \in 1..Len(series) : \A k \in 1..Len(input) :
              Count(Originals(series[s].rows), input[k])
                = IF input[k].patient_id = series[s].patientId
                  THEN Count(input, input[k])
                  ELSE 0
        /\ \A s \in 1..Len(series) : \A i \in 1..Len(series[s].rows) :
              \E k \in 1..Len(input) : input[k] = Original(series[s].rows[i])
        /\ Cardinality(UNION { { <<s, i>> : i \in 1..Len(series[s].rows) } :
                                  s \in 1..Len(series) }) = Len(input)

\* the same record twice in the input
C3_Witness ==
    /\ Returned
    /\ Len(input) = 3
    /\ input[1] = input[3]
    /\ input[2].patient_id # input[1].patient_id
    /\ \E s \in 1..Len(series) : Len(series[s].rows) = 2

\* the rows of the s-th series and the values `nadir` took for them
RowsAt(s) == series[s].rows

NadirsAt(s) == nadirTrace[series[s].patientId]

\* the baseline record of a series as C4 describes it: the chronologically
\* first row with timepoint 0 if there is one, else the first row
BaselineRow(rows) ==
    LET zero == { i \in 1..Len(rows) : rows[i].timepoint = 0 }
    IN  IF zero = {} THEN rows[1]
        ELSE rows[CHOOSE i \in zero : \A j \in zero : i <= j]

BaselineValue(rows) == BaselineRow(rows).recist.baseline_sld_mm

\* pct, a percentage that is not null, is (x - ref) / ref * 100
IsPctOf(pct, x, ref) ==
    /\ ref # 0
    /\ Val(pct)[2] > 0
    /\ Val(pct)[1] * ref = (x - ref) * 100 * Val(pct)[2]

\* C4: every pct_from_baseline that is not null equals (sld_mm - B) / B * 100
\* for the baseline_sld_mm B of the series' baseline record, the same B for
\* every row of the series.
C4_PctFromBaselineUsesBaselineRecord ==
    Returned =>
        \A s \in 1..Len(series) : \A i \in 1..Len(RowsAt(s)) :
            RowsAt(s)[i].pct_from_baseline # Null =>
                /\ BaselineValue(RowsAt(s)) # Null
                /\ IsPctOf(RowsAt(s)[i].pct_from_baseline, RowsAt(s)[i].sld_mm,
                           Val(BaselineValue(RowsAt(s))))

\* a series whose timepoint-0 record is not the chronologically first one and
\* has another baseline value than the first
C4_Witness ==
    /\ Returned
    /\ \E s \in 1..Len(series) :
          /\ Len(RowsAt(s)) = 3
          /\ RowsAt(s)[1].timepoint # 0
          /\ RowsAt(s)[1].recist.baseline_sld_mm = Some(-10)
          /\ RowsAt(s)[2].timepoint = 0
          /\ RowsAt(s)[2].recist.baseline_sld_mm = Some(50)
          /\ RowsAt(s)[3].pct_from_baseline = Some(<<-40, 1>>)

\* C5: sld_mm is the record's baseline value at timepoint 0; at another
\* timepoint the current value, else the baseline value, else 0; it is
\* always a number.
C5_AggregateValue ==
    Returned =>
        \A s \in 1..Len(series) : \A i \in 1..Len(RowsAt(s)) :
            LET r == RowsAt(s)[i]
                b == r.recist.baseline_sld_mm
                c == r.recist.current_sld_mm
            IN  /\ r.sld_mm \in Int
                /\ r.timepoint = 0 /\ b # Null => r.sld_mm = Val(b)
                /\ r.timepoint # 0 /\ c # Null => r.sld_mm = Val(c)
                /\ r.timepoint # 0 /\ c = Null /\ b # Null => r.sld_mm = Val(b)
                /\ r.timepoint # 0 /\ c = Null /\ b = Null => r.sld_mm = 0

\* a series with a timepoint-0 record that has a current value, a later
\* record without current value and one without any value
C5_Witness ==
    /\ Returned
    /\ \E s \in 1..Len(series) :
          /\ Len(RowsAt(s)) = 3
          /\ RowsAt(s)[1].timepoint = 0
          /\ RowsAt(s)[1].recist.current_sld_mm = Some(60)
          /\ RowsAt(s)[1].sld_mm = 0
          /\ RowsAt(s)[2].timepoint # 0
          /\ RowsAt(s)[2].recist.current_sld_mm = Null
          /\ RowsAt(s)[2].sld_mm = -10
          /\ RowsAt(s)[3].recist.baseline_sld_mm = Null
          /\ RowsAt(s)[3].recist.current_sld_mm = Null

\* C6: pct_from_baseline is null if and only if the series' baseline value is
\* null, zero or negative.
C6_PctFromBaselineNullIffNotPositive ==
    Returned =>
        \A s \in 1..Len(series) : \A i \in 1..Len(RowsAt(s)) :
            RowsAt(s)[i].pct_from_baseline = Null
                <=> \/ BaselineValue(RowsAt(s)) = Null
                    \/ Val(BaselineValue(RowsAt(s))) <= 0

\* C7: while one patient's records are folded the running nadir never
\* increases: once it has a value, its value after the next record is less
\* than or equal to it; a nadir that is null adopts the first aggregate value.
C7_NadirNeverIncreases ==
    Returned =>
        \A s \in 1..Len(series) :
            /\ Len(NadirsAt(s)) = Len(RowsAt(s)) + 1
            /\ \A k \in 1..(Len(NadirsAt(s)) - 1) :
                  NadirsAt(s)[k] # Null =>
                      /\ NadirsAt(s)[k + 1] # Null
                      /\ Val(NadirsAt(s)[k + 1]) <= Val(NadirsAt(s)[k])
            /\ NadirsAt(s)[1] = Null =>
                  NadirsAt(s)[2] = Some(RowsAt(s)[1].sld_mm)

\* a fold that starts without nadir, adopts the first value and then meets a
\* larger and a smaller aggregate value
C7_Witness ==
    /\ Returned
    /\ \E s \in 1..Len(series) :
          /\ Len(RowsAt(s)) = 3
          /\ NadirsAt(s)[1] = Null
          /\ RowsAt(s)[2].sld_mm > RowsAt(s)[1].sld_mm
          /\ NadirsAt(s)[3] = NadirsAt(s)[2]
          /\ Val(NadirsAt(s)[4]) < Val(NadirsAt(s)[3])

\* the smallest sld_mm among the first i rows
MinSld(rows, i) ==
    CHOOSE m \in { rows[j].sld_mm : j \in 1..i } :
        \A j \in 1..i : m <= rows[j].sld_mm

\* C8 as claimed: at every timepoint the running nadir is the smallest
\* sld_mm among the rows of the series up to and including that timepoint.
C8_NadirIsSmallestAggregate ==
    Returned =>
        \A s \in 1..Len(series) : \A i \in 1..Len(RowsAt(s)) :
            NadirsAt(s)[i + 1] = Some(MinSld(RowsAt(s), i))

\* C8 amended: at every timepoint the running nadir is the smallest value
\* among the sld_mm of the rows up to and including that timepoint and the
\* baseline value of the series' baseline record, when that is not null.
C8_NadirIsSmallestOfSeedAndAggregates ==
    Returned =>
        \A s \in 1..Len(series) : \A i \in 1..Len(RowsAt(s)) :
            NadirsAt(s)[i + 1] =
                IF BaselineValue(RowsAt(s)) = Null
                THEN Some(MinSld(RowsAt(s), i))
                ELSE Some(MathMin(Val(BaselineValue(RowsAt(s))),
                                  MinSld(RowsAt(s), i)))

\* a series of growing aggregate values whose baseline value lies below all
\* of them
C8_Witness ==
    /\ Returned
    /\ \E s \in 1..Len(series) :
          /\ Len(RowsAt(s)) = 2
          /\ BaselineValue(RowsAt(s)) = Some(50)
          /\ RowsAt(s)[1].sld_mm = 60
          /\ RowsAt(s)[2].sld_mm = 60
          /\ NadirsAt(s)[3] = Some(50)

\* C9: pct_from_nadir is (sld_mm - N) / N * 100 for the running nadir N
\* updated with the row's own aggregate value, and null exactly when N is not
\* a positive number.  Baseline 50, then current 30, then current 45 give
\* -40 from baseline, nadir 30 and 0 from nadir, then -10 from baseline,
\* nadir 30 and +50 from nadir.
C9_PctFromNadir ==
    Returned =>
        \A s \in 1..Len(series) :
            /\ \A i \in 1..Len(RowsAt(s)) :
                  /\ RowsAt(s)[i].pct_from_nadir = Null
                        <=> ~ (NadirsAt(s)[i + 1] # Null
                                 /\ Val(NadirsAt(s)[i + 1]) > 0)
                  /\ RowsAt(s)[i].pct_from_nadir # Null =>
                        IsPctOf(RowsAt(s)[i].pct_from_nadir, RowsAt(s)[i].sld_mm,
                                Val(NadirsAt(s)[i + 1]))
            /\ ( /\ Len(RowsAt(s)) = 3
                 /\ RowsAt(s)[1].timepoint = 0
                 /\ RowsAt(s)[1].recist.baseline_sld_mm = Some(50)
                 /\ RowsAt(s)[2].timepoint = 1
                 /\ RowsAt(s)[2].recist.current_sld_mm = Some(30)
                 /\ RowsAt(s)[3].timepoint = 2
                 /\ RowsAt(s)[3].recist.current_sld_mm = Some(45) )
               => /\ RowsAt(s)[2].pct_from_baseline = Some(<<-40, 1>>)
                  /\ NadirsAt(s)[3] = Some(30)
                  /\ RowsAt(s)[2].pct_from_nadir = Some(<<0, 1>>)
                  /\ RowsAt(s)[3].pct_from_baseline = Some(<<-10, 1>>)
                  /\ NadirsAt(s)[4] = Some(30)
                  /\ RowsAt(s)[3].pct_from_nadir = Some(<<50, 1>>)

\* the scenario of C9 on distinct dates, given in reverse order
C9_Witness ==
    /\ Returned
    /\ Len(input) = 3
    /\ input[1].timepoint = 2 /\ input[1].recist.current_sld_mm = Some(45)
    /\ input[2].timepoint = 1 /\ input[2].recist.current_sld_mm = Some(30)
    /\ input[3].timepoint = 0 /\ input[3].recist.baseline_sld_mm = Some(50)
    /\ Collate(input[3].study_date, input[2].study_date) <= 0
    /\ Collate(input[2].study_date, input[1].study_date) < 0
    /\ Len(series) = 1
    /\ RowsAt(1)[3].pct_from_nadir = Some(<<50, 1>>)

\* C10: every row carries all fields of its input record unchanged, and only
\* sld_mm, pct_from_baseline and pct_from_nadir are added.
C10_InputFieldsUnchanged ==
    Returned =>
        \A s \in 1..Len(series) :
            /\ \A i \in 1..Len(RowsAt(s)) :
                  DOMAIN RowsAt(s)[i] = InputFields \cup DerivedFields
            /\ \E perm \in [1..Len(RowsAt(s)) -> 1..Len(input)] :
                  /\ \A i, j \in 1..Len(RowsAt(s)) : i # j => perm[i] # perm[j]
                  /\ \A i \in 1..Len(RowsAt(s)) : \A f \in InputFields :
                        RowsAt(s)[i][f] = input[perm[i]][f]

\* a row with a lesion list, a response label and a nadir value of the input
\* that differs from the nadir computed for it
C10_Witness ==
    /\ Returned
    /\ \E s \in 1..Len(series) : \E i \in 1..Len(RowsAt(s)) :
          /\ RowsAt(s)[i].lesions # Null
          /\ RowsAt(s)[i].recist.overall_response = "PD"
          /\ RowsAt(s)[i].recist.nadir_sld_mm = Some(50)
          /\ NadirsAt(s)[i + 1] = Some(30)

----------------------------------------------------------------------------
(* Properties of buildLesionMatrix *)

\* buildLesionMatrix has been called
Called == pc = "matrix"

\* the call returned, and did not throw
ReturnedMatrix == Called /\ ~Val(matrix).threw

\* the returned rows
MatrixRows == Val(matrix).rows

\* the indices of the returned rows of identity id
RowsOfId(id) == { r \in 1..Len(MatrixRows) : MatrixRows[r].lesion.id = id }

\* the indices of the returned rows of a label
RowsOfLabel(label) == { r \in 1..Len(MatrixRows) : MatrixRows[r].lesion.label = label }

\* the observations processed, in the order of processing
Landed == 1..Len(landing)

\* the observation carries an explicit identifier
HasIdentifier(lsn) == lsn.lesion_id # Null /\ Val(lsn.lesion_id) # <<>>

\* C11: all observations of the selected patient that carry the same
\* explicit lesion_id are recorded in one and the same row, whatever their
\* kind, organ, station or location: they get the same label, the returned
\* rows hold exactly one row of that identifier, and that row has a cell for
\* every date at which the identifier was observed.
C11_SameIdentifierOneRow ==
    Called =>
        \A i \in Landed :
            HasIdentifier(landing[i].lsn) =>
                /\ \A j \in Landed :
                      landing[j].lsn.lesion_id = landing[i].lsn.lesion_id
                          => landing[j].label = landing[i].label
                /\ ReturnedMatrix =>
                      /\ Cardinality(RowsOfId(Val(landing[i].lsn.lesion_id))) = 1
                      /\ \A r \in RowsOfId(Val(landing[i].lsn.lesion_id)) :
                            /\ MatrixRows[r].lesion.label = landing[i].label
                            /\ landing[i].date \in DOMAIN MatrixRows[r].sizesByDate
                            /\ landing[i].date \in DOMAIN MatrixRows[r].sldByDate

\* "L-LIV-1" observed at two dates, as a lesion of the liver and as a node
\* of the lung: one row with two date cells
C11_Witness ==
    /\ ReturnedMatrix
    /\ \E i, j \in Landed :
          /\ landing[i].lsn.lesion_id = Some(<<76, 45, 76, 73, 86, 45, 49>>)
          /\ landing[j].lsn.lesion_id = landing[i].lsn.lesion_id
          /\ landing[i].lsn.organ # landing[j].lsn.organ
          /\ landing[i].lsn.kind # landing[j].lsn.kind
          /\ landing[i].date # landing[j].date
          /\ \E r \in 1..Len(MatrixRows) :
                /\ MatrixRows[r].lesion.id = <<76, 45, 76, 73, 86, 45, 49>>
                /\ DOMAIN MatrixRows[r].sizesByDate = Dates
                /\ \A d \in Dates : MatrixRows[r].sizesByDate[d] # Null

\* the classification tag, anatomic site and station-or-location of an
\* observation
Components(lsn) == <<lsn.kind, lsn.organ, StationOrLocation(lsn)>>

\* three components in that order, a colon between them, an absent site
\* reading "undefined"
Joined(c) == c[1] \o <<58>> \o Interpolate(c[2]) \o <<58>> \o c[3]

\* C12 as stated: two observations without identifier land in the same row
\* if and only if their three components are equal.
C12_SameRowIffSameComponents ==
    Called =>
        \A i, j \in Landed :
            ~HasIdentifier(landing[i].lsn) /\ ~HasIdentifier(landing[j].lsn) =>
                (landing[i].label = landing[j].label
                    <=> Components(landing[i].lsn) = Components(landing[j].lsn))

\* C12: an observation without identifier is keyed by tag, site and
\* station-or-location joined with ":" in that order.  Two such
\* observations land in the same row if and only if the joined strings are
\* equal; equal components always land in the same row, and the returned
\* rows hold exactly one row of the joined string.
C12_SameRowIffSameJoinedComponents ==
    Called =>
        \A i, j \in Landed :
            ~HasIdentifier(landing[i].lsn) /\ ~HasIdentifier(landing[j].lsn) =>
                /\ landing[i].label = landing[j].label
                      <=> Joined(Components(landing[i].lsn))
                            = Joined(Components(landing[j].lsn))
                /\ Components(landing[i].lsn) = Components(landing[j].lsn)
                      => landing[i].label = landing[j].label
                /\ ReturnedMatrix =>
                      /\ Cardinality(RowsOfId(Joined(Components(landing[i].lsn)))) = 1
                      /\ \A r \in RowsOfId(Joined(Components(landing[i].lsn))) :
                            MatrixRows[r].lesion.label = landing[i].label

\* observations without identifier at two dates: two with equal components,
\* one by station and one by location, and a third with other components,
\* "lung:RUL" and "S1" for "lung" and "RUL:S1", all in one row
C12_Witness ==
    /\ ReturnedMatrix
    /\ \E i, j, k \in Landed :
          /\ ~HasIdentifier(landing[i].lsn)
          /\ ~HasIdentifier(landing[j].lsn)
          /\ ~HasIdentifier(landing[k].lsn)
          /\ landing[i].lsn # landing[j].lsn
          /\ landing[i].date # landing[j].date
          /\ Components(landing[i].lsn) = Components(landing[j].lsn)
          /\ Components(landing[i].lsn) # Components(landing[k].lsn)
          /\ landing[i].label = landing[j].label
          /\ landing[i].label = landing[k].label
          /\ Cardinality(RowsOfLabel(landing[i].label)) = 1

\* the identity of the i-th observation processed
IdentityAt(i) == LesionKey(landing[i].lsn)

\* the first observation of the identity of the i-th
FirstSighting(i) ==
    CHOOSE j \in 1..i :
        /\ IdentityAt(j) = IdentityAt(i)
        /\ \A h \in 1..(j - 1) : IdentityAt(h) # IdentityAt(i)

\* k, when the identity of the i-th observation is the k-th distinct one met
IdentityRank(i) == Cardinality({ IdentityAt(j) : j \in 1..FirstSighting(i) })

\* C13: the k-th distinct identity met, timepoints in series order and
\* observations in list order, has label "L"k at its first and at every
\* later observation; the n returned rows carry these labels, which are
\* exactly L1..Ln, each once, whatever position the final sort gives a row.
C13_LabelsByFirstAppearance ==
    Called =>
        /\ \A i \in Landed : landing[i].label = Label(IdentityRank(i))
        /\ ReturnedMatrix =>
              /\ \A k \in 1..Len(MatrixRows) : Cardinality(RowsOfLabel(Label(k))) = 1
              /\ \A i \in Landed : \A r \in 1..Len(MatrixRows) :
                    MatrixRows[r].lesion.id = IdentityAt(i)
                        <=> MatrixRows[r].lesion.label = landing[i].label
              /\ Len(MatrixRows) = Cardinality({ IdentityAt(i) : i \in Landed })

\* two identities, the first one observed again after the second, and a
\* final sort that puts the row labelled L2 first
C13_Witness ==
    /\ ReturnedMatrix
    /\ Len(MatrixRows) = 2
    /\ MatrixRows[1].lesion.label = <<76, 50>>
    /\ MatrixRows[2].lesion.label = <<76, 49>>
    /\ \E i, j \in Landed :
          /\ i < j
          /\ landing[i].label = <<76, 50>>
          /\ landing[j].label = <<76, 49>>

\* the series buildLesionMatrix was called on
SelectedRows == Val(selected).rows

\* the index in the series, counted from 0, of the baseline timepoint: the
\* first timepoint-0 record if there is one, else the first record
BaselineIndex ==
    IF \E i \in 1..Len(SelectedRows) : SelectedRows[i].timepoint = 0
    THEN (CHOOSE i \in 1..Len(SelectedRows) :
              /\ SelectedRows[i].timepoint = 0
              /\ \A j \in 1..(i - 1) : SelectedRows[j].timepoint # 0) - 1
    ELSE 0

\* the i-th observation is the last one processed for its row and date
LastForCell(i) ==
    \A j \in Landed :
        j > i => ~(landing[j].label = landing[i].label
                     /\ landing[j].date = landing[i].date)

\* the contribution cell of the row and date of the i-th observation
ContributionCell(i) ==
    MatrixRows[CHOOSE r \in 1..Len(MatrixRows) :
                   MatrixRows[r].lesion.label = landing[i].label]
        .sldByDate[landing[i].date]

\* C14: for an observation with the contributing flag set, the last one
\* processed for its row and date, the contribution value of (row, date) is the
\* observation's baseline measurement when the observation belongs to the
\* baseline timepoint, and its follow-up measurement otherwise.
C14_ContributionByBaselineTimepoint ==
    ReturnedMatrix =>
        \A i \in Landed :
            landing[i].lsn.target /\ LastForCell(i) =>
                ContributionCell(i) =
                    IF landing[i].tpIdx = BaselineIndex
                    THEN landing[i].lsn.baseline_mm
                    ELSE landing[i].lsn.follow_mm

\* the i-th observation has a row among the returned rows with a
\* contribution cell for its date
HasContributionCell(i) ==
    \E r \in 1..Len(MatrixRows) :
        /\ MatrixRows[r].lesion.label = landing[i].label
        /\ landing[i].date \in DOMAIN MatrixRows[r].sldByDate

\* C15 as stated: for an observation with the contributing flag unset the
\* contribution cell of (row, date) is absent.
C15_NoCellWhenUnset ==
    ReturnedMatrix =>
        \A i \in Landed : ~landing[i].lsn.target => ~HasContributionCell(i)

\* C15: for an observation with the contributing flag unset, the last one
\* processed for its row and date, the contribution cell of (row, date)
\* exists and holds null, never 0 nor another number.
C15_NullCellWhenUnset ==
    ReturnedMatrix =>
        \A i \in Landed :
            ~landing[i].lsn.target /\ LastForCell(i) =>
                /\ HasContributionCell(i)
                /\ ContributionCell(i) = Null

\* a row observed once without the flag and with measurements, next to a
\* row that contributes zero
C15_Witness ==
    /\ ReturnedMatrix
    /\ \E i, j \in Landed :
          /\ ~landing[i].lsn.target
          /\ LastForCell(i)
          /\ landing[i].lsn.follow_mm # Null
          /\ landing[i].lsn.baseline_mm # Null
          /\ ContributionCell(i) = Null
          /\ landing[j].lsn.target
          /\ ContributionCell(j) = Some(0)

\* C16: a returned row is flagged as contributing if and only if some
\* observation of its lesion had the contributing flag set, and every row
\* that holds a contribution value on some date is flagged.
C16_FlaggedIffEverContributing ==
    ReturnedMatrix =>
        \A r \in 1..Len(MatrixRows) :
            /\ MatrixRows[r].lesion.target
                  <=> \E i \in Landed :
                         /\ landing[i].label = MatrixRows[r].lesion.label
                         /\ landing[i].lsn.target
            /\ (\E d \in DOMAIN MatrixRows[r].sldByDate :
                    MatrixRows[r].sldByDate[d] # Null)
                  => MatrixRows[r].lesion.target

\* C17: in the returned rows every contributing row comes before every
\* non-contributing row, and of two rows of the same group with an anatomic
\* site, the earlier one has the smaller or the same site in the ascending
\* order of localeCompare.
C17_ContributingFirstThenBySite ==
    ReturnedMatrix =>
        \A i, j \in 1..Len(MatrixRows) :
            i < j =>
                /\ MatrixRows[j].lesion.target => MatrixRows[i].lesion.target
                /\ /\ MatrixRows[i].lesion.target = MatrixRows[j].lesion.target
                   /\ MatrixRows[i].lesion.organ # Null
                   /\ MatrixRows[j].lesion.organ # Null
                   => Collate(Val(MatrixRows[i].lesion.organ),
                              Val(MatrixRows[j].lesion.organ)) <= 0

\* three rows returned in another order than they were first seen: the
\* contributing row L2 first, then of the two others "liver" (L3) before
\* "lung:RUL" (L1)
C17_Witness ==
    /\ ReturnedMatrix
    /\ Len(MatrixRows) = 3
    /\ MatrixRows[1].lesion.label = <<76, 50>>
    /\ MatrixRows[1].lesion.target
    /\ MatrixRows[2].lesion.label = <<76, 51>>
    /\ ~MatrixRows[2].lesion.target
    /\ MatrixRows[2].lesion.organ = Some(<<108, 105, 118, 101, 114>>)
    /\ MatrixRows[3].lesion.label = <<76, 49>>
    /\ ~MatrixRows[3].lesion.target
    /\ MatrixRows[3].lesion.organ = Some(LungRUL)

\* the input records in every order
Reorderings ==
    { [i \in 1..Len(input) |-> input[f[i]]] :
        f \in { g \in [1..Len(input) -> 1..Len(input)] :
                  \A i, j \in 1..Len(input) : g[i] = g[j] => i = j } }

\* the series that groupByPatient makes for patient p from the records rows
SeriesFor(rows, p) ==
    LET grouped == groupByPatient(rows)
    IN  Some(grouped[CHOOSE s \in 1..Len(grouped) : grouped[s].patientId = p])

\* the outcomes of buildLesionMatrix on that series
MatrixOf(rows, p) == buildLesionMatrix(SeriesFor(rows, p))

\* no two records of the selected patient have the same study date
DistinctDates ==
    \A i, j \in 1..Len(SelectedRows) :
        SelectedRows[i].study_date = SelectedRows[j].study_date => i = j

\* C18 as stated: whatever the order of the input records, groupByPatient
\* followed by buildLesionMatrix gives the same result for the selected
\* patient.
C18_RowsIndependentOfInputOrder ==
    Called /\ selected # Null =>
        \A rows \in Reorderings :
            MatrixOf(rows, Val(selected).patientId) = buildLesionMatrix(selected)

\* C18: when no two records of the selected patient have the same study
\* date, groupByPatient followed by buildLesionMatrix gives the same result
\* for that patient whatever the order of the input records.
C18_RowsIndependentOfInputOrderDistinctDates ==
    Called /\ selected # Null /\ DistinctDates =>
        \A rows \in Reorderings :
            LET outcomes == MatrixOf(rows, Val(selected).patientId)
            IN  /\ outcomes = buildLesionMatrix(selected)
                /\ Val(matrix) \in outcomes

\* a patient's two records of different dates given latest first, together
\* with a record of another patient, and two rows returned
C18_Witness ==
    /\ ReturnedMatrix
    /\ selected # Null
    /\ DistinctDates
    /\ Len(SelectedRows) = 2
    /\ Len(input) = 3
    /\ \E i, j \in 1..Len(input) :
          /\ i < j
          /\ input[i].patient_id = Val(selected).patientId
          /\ input[j].patient_id = Val(selected).patientId
          /\ Collate(input[j].study_date, input[i].study_date) < 0
    /\ Len(MatrixRows) = 2
    /\ \E r \in 1..Len(MatrixRows) : DOMAIN MatrixRows[r].sizesByDate = Dates

\* C19: buildLesionMatrix never ends in an error: whatever the records, a
\* call returns a result.
C19_NeverThrows ==
    Called => ~Val(matrix).threw

----------------------------------------------------------------------------
(* Further properties of groupByPatient *)

\* nadir values a record can supply
SuppliedNadirs == { Null, Some(1) }

\* the records with every nadir_sld_mm replaced by v
WithNadir(rows, v) ==
    [i \in 1..Len(rows) |->
        [rows[i] EXCEPT !.recist = [rows[i].recist EXCEPT !.nadir_sld_mm = v]]]

\* the derived values of a row
DerivedOfRow(row) == [f \in DerivedFields |-> row[f]]

\* the patients of a list of series with the derived values of their rows
DerivedOf(ss) ==
    [s \in 1..Len(ss) |->
        [patientId |-> ss[s].patientId,
         derived   |-> [i \in 1..Len(ss[s].rows) |-> DerivedOfRow(ss[s].rows[i])]]]

\* C21: the derived values of every row are those that groupByPatient
\* computes when every supplied nadir_sld_mm is replaced by null or by some
\* other value: inputs that differ only in nadir_sld_mm give the same
\* sld_mm, pct_from_baseline and pct_from_nadir.
C21_SuppliedNadirUnused ==
    Returned =>
        \A v \in SuppliedNadirs :
            DerivedOf(groupByPatient(WithNadir(input, v))) = DerivedOf(series)

\* a baseline record that supplies the nadir 0 and a later record that
\* supplies the nadir 30 below its aggregate value 45, of one patient
C21_Witness ==
    /\ Returned
    /\ Len(series) = 1
    /\ Len(series[1].rows) = 2
    /\ series[1].rows[1].recist.nadir_sld_mm = Some(0)
    /\ series[1].rows[2].recist.nadir_sld_mm = Some(30)
    /\ series[1].rows[2].sld_mm = 45
    /\ series[1].rows[2].pct_from_nadir = Null

\* C27: in every row of every series, pct_from_nadir is null or a
\* percentage not below 0.
C27_PctFromNadirNotNegative ==
    Returned =>
        \A s \in 1..Len(series) : \A i \in 1..Len(RowsAt(s)) :
            \/ RowsAt(s)[i].pct_from_nadir = Null
            \/ Val(RowsAt(s)[i].pct_from_nadir)[1] >= 0

\* a series whose aggregate value falls below the nadir so far, the row
\* getting 0, and rises above it afterwards, the row getting +50
C27_Witness ==
    /\ Returned
    /\ \E s \in 1..Len(series) :
          /\ Len(RowsAt(s)) = 3
          /\ RowsAt(s)[1].sld_mm = 50
          /\ RowsAt(s)[2].sld_mm = 30
          /\ RowsAt(s)[2].pct_from_nadir = Some(<<0, 1>>)
          /\ RowsAt(s)[3].sld_mm = 45
          /\ RowsAt(s)[3].pct_from_nadir = Some(<<50, 1>>)

\* pct_from_baseline of the baseline record of series s
BaselinePct(s) == BaselineRow(RowsAt(s)).pct_from_baseline

\* C28 as stated: for the baseline record of a series, pct_from_baseline is
\* null or 0.
C28_BaselinePctZero ==
    Returned =>
        \A s \in 1..Len(series) : BaselinePct(s) \in { Null, Some(<<0, 1>>) }

\* C28: for the baseline record of a series, pct_from_baseline is null or 0
\* when the record has timepoint 0; for a baseline record chosen by the
\* fallback it is null or the change of the record's own aggregate value
\* from its baseline value, which is 0 only if the two are equal.
C28_BaselinePctZeroAtTimepointZero ==
    Returned =>
        \A s \in 1..Len(series) :
            IF BaselineRow(RowsAt(s)).timepoint = 0
            THEN BaselinePct(s) \in { Null, Some(<<0, 1>>) }
            ELSE BaselinePct(s) # Null =>
                    /\ BaselineValue(RowsAt(s)) # Null
                    /\ Val(BaselinePct(s))[2] > 0
                    /\ Val(BaselinePct(s))[1] * Val(BaselineValue(RowsAt(s)))
                         = (BaselineRow(RowsAt(s)).sld_mm
                              - Val(BaselineValue(RowsAt(s))))
                           * 100 * Val(BaselinePct(s))[2]
                    /\ BaselinePct(s) = Some(<<0, 1>>)
                         <=> BaselineRow(RowsAt(s)).sld_mm
                               = Val(BaselineValue(RowsAt(s)))

\* one patient whose baseline record has timepoint 0 and comes after an
\* earlier record, with 0; another whose only record has timepoint 1,
\* baseline value 50 and current value 30, with -40
C28_Witness ==
    /\ Returned
    /\ Len(series) = 2
    /\ Len(RowsAt(1)) = 2
    /\ RowsAt(1)[1].timepoint # 0
    /\ RowsAt(1)[2].timepoint = 0
    /\ RowsAt(1)[2].pct_from_baseline = Some(<<0, 1>>)
    /\ Len(RowsAt(2)) = 1
    /\ RowsAt(2)[1].timepoint = 1
    /\ RowsAt(2)[1].pct_from_baseline = Some(<<-40, 1>>)

\* C29: a row of timepoint 0 gets its aggregate value from the baseline
\* value alone: 0 when the baseline value is null, whether or not the
\* current value is present, and the baseline value otherwise.
C29_TimepointZeroIgnoresCurrent ==
    Returned =>
        \A s \in 1..Len(series) : \A i \in 1..Len(RowsAt(s)) :
            RowsAt(s)[i].timepoint = 0 =>
                RowsAt(s)[i].sld_mm =
                    IF RowsAt(s)[i].recist.baseline_sld_mm = Null THEN 0
                    ELSE Val(RowsAt(s)[i].recist.baseline_sld_mm)

\* a timepoint-0 row without baseline value and with current value 45 that
\* has aggregate value 0, and a timepoint-0 row with baseline value 0 and
\* current value 60
C29_Witness ==
    /\ Returned
    /\ \E s \in 1..Len(series) : \E i, j \in 1..Len(RowsAt(s)) :
          /\ RowsAt(s)[i].timepoint = 0
          /\ RowsAt(s)[i].recist.baseline_sld_mm = Null
          /\ RowsAt(s)[i].recist.current_sld_mm = Some(45)
          /\ RowsAt(s)[i].sld_mm = 0
          /\ RowsAt(s)[j].timepoint = 0
          /\ RowsAt(s)[j].recist.baseline_sld_mm = Some(0)
          /\ RowsAt(s)[j].recist.current_sld_mm = Some(60)

----------------------------------------------------------------------------
(* Further properties of buildLesionMatrix *)

\* the dates at which the identity of the i-th observation was observed
DatesOfIdentity(i) ==
    { landing[j].date : j \in { h \in Landed : IdentityAt(h) = IdentityAt(i) } }

\* C22: the returned row of an identity has the site, rule and flag of the
\* first observation processed for that identity, whatever later
\* observations of the identity say, and one cell for each date at which the
\* identity was observed.
C22_RowDescribedByFirstSighting ==
    ReturnedMatrix =>
        \A i \in Landed : \A r \in RowsOfId(IdentityAt(i)) :
            /\ MatrixRows[r].lesion.organ = landing[FirstSighting(i)].lsn.organ
            /\ MatrixRows[r].lesion.rule = landing[FirstSighting(i)].lsn.rule
            /\ MatrixRows[r].lesion.target = landing[FirstSighting(i)].lsn.target
            /\ MatrixRows[r].lesion.label = landing[FirstSighting(i)].label
            /\ DOMAIN MatrixRows[r].sizesByDate = DatesOfIdentity(i)
            /\ DOMAIN MatrixRows[r].sldByDate = DatesOfIdentity(i)

\* "L-LIV-1" first seen as a contributing lesion of the liver measured by
\* its longest diameter, then at a later date as a non-contributing node of
\* the lung measured by its short axis: the row keeps the first description
\* and has two date cells
C22_Witness ==
    /\ ReturnedMatrix
    /\ \E i, j \in Landed : \E r \in 1..Len(MatrixRows) :
          /\ i < j
          /\ FirstSighting(j) = i
          /\ landing[i].date # landing[j].date
          /\ landing[i].lsn.organ # landing[j].lsn.organ
          /\ landing[i].lsn.rule # landing[j].lsn.rule
          /\ landing[i].lsn.target
          /\ ~landing[j].lsn.target
          /\ MatrixRows[r].lesion.id = IdentityAt(j)
          /\ MatrixRows[r].lesion.organ = Some(<<108, 105, 118, 101, 114>>)
          /\ MatrixRows[r].lesion.rule = "longest"
          /\ MatrixRows[r].lesion.target
          /\ DOMAIN MatrixRows[r].sizesByDate = Dates

\* the measurement cell of the row and date of the i-th observation
SizeCell(i) ==
    MatrixRows[CHOOSE r \in 1..Len(MatrixRows) :
                   MatrixRows[r].lesion.label = landing[i].label]
        .sizesByDate[landing[i].date]

\* C30: the returned dates are the study dates of the timepoints of the
\* selected series, one entry per timepoint in series order, so a date shared
\* by two timepoints occurs twice; the cells of a row for a date hold the
\* measurement and the contribution of the last observation processed for
\* that row and date.
C30_DatePerTimepointLastObservationPerCell ==
    ReturnedMatrix /\ selected # Null =>
        /\ Len(Val(matrix).dates) = Len(SelectedRows)
        /\ \A t \in 1..Len(SelectedRows) :
              Val(matrix).dates[t] = SelectedRows[t].study_date
        /\ \A i \in Landed :
              LastForCell(i) =>
                  /\ SizeCell(i) = landing[i].lsn.size_mm_current
                  /\ ContributionCell(i) =
                        IF ~landing[i].lsn.target THEN Null
                        ELSE IF landing[i].tpIdx = 0
                             THEN landing[i].lsn.baseline_mm
                             ELSE landing[i].lsn.follow_mm

\* two timepoints of one date: the date is returned twice, and the row of a
\* lesion measured 20 at the first and 12 at the second has the one cell 12
C30_Witness ==
    /\ ReturnedMatrix
    /\ selected # Null
    /\ Len(Val(matrix).dates) = 2
    /\ Val(matrix).dates[1] = Val(matrix).dates[2]
    /\ \E i, j \in Landed :
          /\ i < j
          /\ landing[i].label = landing[j].label
          /\ landing[i].tpIdx # landing[j].tpIdx
          /\ landing[i].lsn.size_mm_current = Some(20)
          /\ landing[j].lsn.size_mm_current = Some(12)
          /\ LastForCell(j)
          /\ SizeCell(j) = Some(12)
          /\ ContributionCell(j) = Some(12)
          /\ \A r \in RowsOfLabel(landing[j].label) :
                DOMAIN MatrixRows[r].sizesByDate = { landing[j].date }


----------------------------------------------------------------------------
(* Properties of handleCohortJsonl *)

Parsed == pc = "parsed"

\* the lines of the text that JSON.parse accepts with a truthy value: the
\* lines of objects and of truthy values that are not objects
RecordLines ==
    { i \in 1..Len(text) : ~text[i].blank /\ text[i].parses /\ text[i].truthy }

\* the lines of the text that JSON.parse rejects
MalformedLines == { i \in 1..Len(text) : ~text[i].blank /\ ~text[i].parses }

\* the position in rows of the record of line i: the number of lines up to
\* i that give a record
PositionOf(i) == Cardinality({ j \in RecordLines : j <= i })

\* C23: a malformed line gives no record and does not end the loop: rows
\* holds exactly one record per line that parses to an object (or to another
\* truthy value), in the order of the lines, whether the line comes before
\* or after a malformed one, and the record of an object line has the
\* patient, date and timepoint of its object
C23_MalformedLineSkipped ==
    Parsed =>
        /\ Len(loaded) = Cardinality(RecordLines)
        /\ \A i \in 1..Len(text) :
              text[i].object =>
                  /\ i \in RecordLines
                  /\ PositionOf(i) \in 1..Len(loaded)
                  /\ loaded[PositionOf(i)].patient_id = text[i].obj.patient_id.value
                  /\ loaded[PositionOf(i)].study_date = text[i].obj.study_date.value
                  /\ loaded[PositionOf(i)].timepoint =
                        IF text[i].obj.timepoint.value = Null THEN 0
                        ELSE Val(text[i].obj.timepoint.value)
        /\ \A i \in MalformedLines :
              PositionOf(i) = Cardinality({ j \in RecordLines : j < i })

\* an object before and an object after a malformed line, two records
C23_Witness ==
    /\ Parsed
    /\ text = <<ObjectLine(FlatObject), MalformedLine, ObjectLine(NestedObject)>>
    /\ Len(loaded) = 2
    /\ loaded[1].patient_id = Some(<<112, 49>>)
    /\ loaded[2].timepoint = 0

\* the value a record takes for a property given flat and nested: the flat
\* one unless it is absent or null, else the nested one unless it is absent
\* or null, else the default
FirstNotNull(flat, nested, default) ==
    IF flat.present /\ flat.value # Null THEN flat.value
    ELSE IF nested.present /\ nested.value # Null THEN nested.value
    ELSE default

\* the value a record would take if every flat property that is present won
FlatWhenPresent(flat, nested, default) ==
    IF flat.present THEN flat.value
    ELSE IF nested.present /\ nested.value # Null THEN nested.value
    ELSE default

\* the property name of the nested block of obj, of the block extras
NestedProperty(obj, name) ==
    IF obj.recist = Null THEN Absent ELSE Val(obj.recist)[name]
ExtrasLesions(obj) ==
    IF obj.extras = Null THEN Absent ELSE Val(obj.extras).lesions

MetricNames == { "baseline_sld_mm", "current_sld_mm", "nadir_sld_mm" }

\* C24 as stated: the record takes the flat value of a metric, of the
\* response label and of the lesion list whenever the object provides it,
\* and the nested one only when the flat property is absent
C24_FlatTakesPrecedence ==
    Parsed =>
        \A i \in 1..Len(text) :
            text[i].object =>
                LET obj == text[i].obj
                    row == loaded[PositionOf(i)]
                IN  /\ \A name \in MetricNames :
                          row.recist[name] =
                              FlatWhenPresent(obj[name], NestedProperty(obj, name), Null)
                    /\ Some(row.recist.overall_response) =
                          FlatWhenPresent(obj.overall_response,
                                          NestedProperty(obj, "overall_response"),
                                          Some(NoResponse))
                    /\ row.lesions =
                          FlatWhenPresent(obj.lesions, ExtrasLesions(obj), Null)

\* C24: the record takes the flat value of a metric, of the response label
\* and of the lesion list when the object has it and it is not null (zero
\* and the empty list included), else the nested value when the object has
\* it and it is not null, else null (the dash for the label)
C24_FlatNotNullTakesPrecedence ==
    Parsed =>
        \A i \in 1..Len(text) :
            text[i].object =>
                LET obj == text[i].obj
                    row == loaded[PositionOf(i)]
                IN  /\ \A name \in MetricNames :
                          row.recist[name] =
                              FirstNotNull(obj[name], NestedProperty(obj, name), Null)
                    /\ Some(row.recist.overall_response) =
                          FirstNotNull(obj.overall_response,
                                       NestedProperty(obj, "overall_response"),
                                       Some(NoResponse))
                    /\ row.lesions =
                          FirstNotNull(obj.lesions, ExtrasLesions(obj), Null)

\* the object with both forms: the flat 0, 30, "PD" and empty list are
\* taken, the nested 45 stands in for the flat null
C24_Witness ==
    /\ Parsed
    /\ Len(text) >= 1
    /\ text[1] = ObjectLine(BothObject)
    /\ loaded[1].recist = Recist(Some(0), Some(45), Some(30), "PD")
    /\ loaded[1].lesions = Some(<<>>)


\* the patients of the objects of a file, the object lines of a patient
PatientsOfFile(file) ==
    { Val(file[i].obj.patient_id.value) :
          i \in { j \in 1..Len(file) : file[j].object } }
LinesOfPatient(file, p) ==
    { i \in 1..Len(file) :
          file[i].object /\ file[i].obj.patient_id.value = Some(p) }

\* what a finished load leaves of file: the series are groupByPatient of the
\* records of the file, their patients are the patients of the file with one
\* row per object line, and selectedId is the patient of the file that
\* collates first, or null when the file has none
LoadedFrom(file, ss, id) ==
    /\ ss = groupByPatient(AsRows(ParseLines(file)))
    /\ { ss[s].patientId : s \in 1..Len(ss) } = PatientsOfFile(file)
    /\ \A s \in 1..Len(ss) :
          Len(ss[s].rows) = Cardinality(LinesOfPatient(file, ss[s].patientId))
    /\ IF PatientsOfFile(file) = {} THEN id = Null /\ ss = <<>>
       ELSE /\ id # Null
            /\ Val(id) \in PatientsOfFile(file)
            /\ \A q \in PatientsOfFile(file) : Collate(Val(id), q) <= 0

\* C25: the step that finishes a load leaves as series exactly
\* groupByPatient of the records of its file, nothing of an earlier load,
\* and as selection the first series in the order of the patient
\* identifiers, or none for a file without records; and at all times the
\* selection names a series of the current list unless the list is empty
C25_LoadReplacesSeriesAndSelection ==
    /\ [][applied' # applied =>
             LoadedFrom(chosen'[applied'[Len(applied')]], series', selectedId')]_vars
    /\ [](IF series = <<>> THEN selectedId = Null /\ SelectedSeries = Null
          ELSE /\ selectedId # Null
               /\ SelectedSeries # Null
               /\ Val(SelectedSeries).patientId = Val(selectedId))

\* after a load of a file of two patients, a load
\* of a file of one patient: one series, selected
C25_Witness ==
    /\ applied = <<1, 2>>
    /\ chosen = <<TwoPatients, TwoStudies>>
    /\ Len(series) = 1
    /\ series[1].patientId = <<112, 49>>
    /\ Len(series[1].rows) = 2
    /\ selectedId = Some(<<112, 49>>)

\* C26: the loads do not interleave: the calls set series in the order the
\* files were chosen, and when every call has finished the series are those
\* of the file chosen last
C26_LastChosenFileWins ==
    /\ \A i, j \in 1..Len(applied) : i < j => applied[i] < applied[j]
    /\ (pending = {} /\ applied # <<>> /\ Len(applied) = Len(chosen)) =>
           series = groupByPatient(AsRows(ParseLines(chosen[Len(chosen)])))

====
